---- MODULE Spec2Model ----
(***************************************************************************)
(* A model of S3Client (src/src/S3Client.ts): a facade over an object      *)
(* storage SDK with one mutable field (the selected bucket), one mutable   *)
(* URL object used to build public URLs, and four asynchronous data        *)
(* operations.  Every "await" of the source is a suspension point of the   *)
(* model: the operation in flight stops there, and setBucket may run       *)
(* before it resumes.                                                      *)
(*                                                                         *)
(* Strings that the code inspects (keys, URLs) are sequences of one        *)
(* character strings, so that splitting, parsing and percent-encoding are  *)
(* computed rather than assumed.                                           *)
(***************************************************************************)
EXTENDS Integers, Sequences, FiniteSets, TLC

VARIABLES
  config,       \* constructor argument: [cdnUrl, defaultBucket]
  bucket,       \* this.bucket
  url,          \* this.url, the URL object mutated by urlGenerator
  store,        \* the provider's objects: set of <<bucket, key>>
  outFile,      \* local file at the download destination
  outDir,       \* whether the destination directory exists
  op,           \* the data operation in flight or last finished
  args,         \* its options
  pc,           \* where it is suspended
  calls,        \* the requests it has sent to the provider, in order
  guard,        \* outcome of its check(): "pending", "passed", "failed"
  contents,     \* Contents of the list-objects response it received
  err,          \* message of the Error it rejected with
  ret,          \* value it resolved with
  atCall,       \* store and local file as they were when it was called
  lastDeleted,  \* <<bucket, key>> of the delete that just succeeded
  setBucketCalled, \* whether setBucket has ever been called
  moved         \* whether this.bucket took another value since the call

vars == <<config, bucket, url, store, outFile, outDir, op, args, pc, calls,
          guard, contents, err, ret, atCall, lastDeleted, setBucketCalled,
          moved>>

-----------------------------------------------------------------------------
(* Bounds and input sets *)

MaxSize == 1       \* largest object or buffer size, in bytes
MaxEntries == 2    \* longest Contents array of a list-objects response

Undefined == "undefined"
NoError == ""
NoFile == [defined |-> FALSE]

Buckets == {"b1", "b2"}

\* the key the caller works on, "d/a b": its space is percent-encoded
Keys == { <<"d", "/", "a", " ", "b">> }

\* keys a listing may hold: the directory marker "d/", and "d/../a?", which
\* the URL parser normalises and encodes
ListKeys == { <<"d", "/">>, <<"d", "/", ".", ".", "/", "a", "?">> }

Origin == "https://cdn.example.com"

\* cdnUrl values: the bare origin, and one with a path, a query and a
\* fragment
CdnUrls == { <<Origin>>,
             <<Origin, "/", "p", "?", "v", "#", "f">> }

Sizes == 0 .. MaxSize

-----------------------------------------------------------------------------
(* URL: parsing, the pathname setter and serialisation *)

\* the path percent-encode set, on the characters of the model
PercentEncode(c) ==
  CASE c = " " -> "%20"
    [] c = "?" -> "%3F"
    [] c = "#" -> "%23"
    [] OTHER -> c

IsSlash(c) == c \in {"/", "\\"}

ShortenPath(path) ==
  IF Len(path) = 0 THEN path ELSE SubSeq(path, 1, Len(path) - 1)

\* path state of the URL parser for a special scheme; override = TRUE when
\* run by the pathname setter, where "?" and "#" do not end the path
RECURSIVE PathState(_, _, _, _, _)
PathState(input, i, path, buffer, override) ==
  LET eof == i > Len(input)
      stop == eof \/ IsSlash(input[i])
                  \/ (~override /\ input[i] \in {"?", "#"})
      slash == ~eof /\ IsSlash(input[i])
      pushed ==
        IF buffer = <<".", ".">>
          THEN IF slash THEN ShortenPath(path)
                        ELSE Append(ShortenPath(path), <<>>)
        ELSE IF buffer = <<".">>
          THEN IF slash THEN path ELSE Append(path, <<>>)
        ELSE Append(path, buffer)
  IN IF stop
       THEN IF slash THEN PathState(input, i + 1, pushed, <<>>, override)
                     ELSE pushed
       ELSE PathState(input, i + 1, path,
                      Append(buffer, PercentEncode(input[i])), override)

RECURSIVE SerializePath(_)
SerializePath(path) ==
  IF Len(path) = 0 THEN <<>>
  ELSE <<"/">> \o Head(path) \o SerializePath(Tail(path))

\* path start state followed by path state
ParsePath(input, override) ==
  LET start == IF Len(input) > 0 /\ IsSlash(input[1]) THEN 2 ELSE 1
  IN SerializePath(PathState(input, start, <<>>, <<>>, override))

\* URL.pathname = value
PathnameSetter(value) == ParsePath(value, TRUE)

\* index of the first element of s at or after i that is in set, else Len+1
RECURSIVE IndexOf(_, _, _)
IndexOf(s, i, set) ==
  IF i > Len(s) THEN Len(s) + 1
  ELSE IF s[i] \in set THEN i
  ELSE IndexOf(s, i + 1, set)

\* new URL(href)
ParseURL(href) ==
  LET rest == Tail(href)
      q == IndexOf(rest, 1, {"?", "#"})
      h == IndexOf(rest, 1, {"#"})
  IN [ origin |-> Head(href),
       pathname |-> ParsePath(SubSeq(rest, 1, q - 1), FALSE),
       search |-> SubSeq(rest, q, h - 1),
       hash |-> SubSeq(rest, h, Len(rest)) ]

\* URL.toString()
toString(u) == <<u.origin>> \o u.pathname \o u.search \o u.hash

\* a urlGenerator that extends the current path instead of replacing it
urlGenerator_appending(u, pathName) ==
  [u EXCEPT !.pathname = u.pathname \o PathnameSetter(pathName)]

\* urlGenerator: the URL object after the assignment; its result is
\* ToString of that object
urlGenerator(u, pathName) == [u EXCEPT !.pathname = PathnameSetter(pathName)]

-----------------------------------------------------------------------------
(* File records *)

\* item.Key.split("/").pop()
RECURSIVE LastSegment(_)
LastSegment(key) ==
  LET i == IndexOf(key, 1, {"/"})
  IN IF i > Len(key) THEN key
     ELSE LastSegment(SubSeq(key, i + 1, Len(key)))

\* a fileGenerator that lets entries of size 0 through
fileGenerator_anySize(item, u) ==
  IF item.Size >= 0 /\ item.Key # <<>>
    THEN [ name |-> LastSegment(item.Key),
           key |-> item.Key,
           byte |-> item.Size,
           url |-> toString(urlGenerator(u, item.Key)) ]
    ELSE NoFile

\* fileGenerator; type and lastModified do not depend on the state and are
\* left out of the record
fileGenerator(item, u) ==
  IF item.Size > 0 /\ item.Key # <<>>
    THEN [ name |-> LastSegment(item.Key),
           key |-> item.Key,
           byte |-> item.Size,
           url |-> toString(urlGenerator(u, item.Key)) ]
    ELSE NoFile

\* this.url after fileGenerator(item): the pathname is assigned only on the
\* branch that builds a File
urlAfterFile(item, u) ==
  IF item.Size > 0 /\ item.Key # <<>> THEN urlGenerator(u, item.Key) ELSE u

\* the for loop of list: the files pushed, in order
RECURSIVE ListFiles(_, _)
ListFiles(items, u) ==
  IF Len(items) = 0 THEN <<>>
  ELSE LET file == fileGenerator(Head(items), u)
       IN (IF file # NoFile THEN <<file>> ELSE <<>>)
            \o ListFiles(Tail(items), urlAfterFile(Head(items), u))

\* this.url after the loop
RECURSIVE ListUrl(_, _)
ListUrl(items, u) ==
  IF Len(items) = 0 THEN u
  ELSE ListUrl(Tail(items), urlAfterFile(Head(items), u))

-----------------------------------------------------------------------------
(* Failures *)

\* a thrown value: an Error with a message, or something that is not one
Thrown(message) == [isError |-> TRUE, message |-> message]
NotAnError == [isError |-> FALSE, message |-> ""]

\* error instanceof Error ? error.message : fallback
ErrorMessage(error, fallback) ==
  IF error.isError THEN error.message ELSE fallback

DefaultMessage(name) ==
  CASE name = "list" -> "Failed to list files!"
    [] name = "upload" -> "Failed to upload file!"
    [] name = "delete" -> "Failed to delete file!"
    [] name = "download" -> "Failed to download file!"

\* how a request to the provider can end: resolved, resolved with a status
\* other than 200, rejected with an Error, rejected with a non-Error
Rejections == {"error", "reject"}
Outcomes == {"ok"} \cup Rejections

RejectionOf(outcome) ==
  IF outcome = "error" THEN Thrown("NetworkError") ELSE NotAnError

\* checkCredentials after the response: the value it throws, or NoFile-like
\* "none" when it returns
NoThrow == [isError |-> FALSE, message |-> "none"]

checkCredentials(outcome) ==
  IF outcome \in Rejections THEN RejectionOf(outcome)
  ELSE IF outcome # "ok" THEN Thrown("Authentication failed!")
  ELSE NoThrow

\* a check that forgets the bucket
checkBucket_never(b) == NoThrow

\* check after checkCredentials returned
checkBucket(b) ==
  IF b = Undefined THEN Thrown("Bucket is not set!") ELSE NoThrow

\* check: credentials first, then the bucket
check(outcome, b) ==
  IF checkCredentials(outcome) # NoThrow THEN checkCredentials(outcome)
  ELSE checkBucket(b)

\* a checkIfFileExists that reports every key as present
checkIfFileExists_always(outcome) == TRUE

\* checkIfFileExists after the head-object response
checkIfFileExists(outcome) == outcome = "ok"

\* the provider's answer to head-object and get-object when it is reached
Lookup(b, key) == IF <<b, key>> \in store THEN "ok" ELSE "missing"

-----------------------------------------------------------------------------
(* Requests and responses *)

\* a request that always names the first bucket
Request_firstBucket(cmd, b, key) ==
  [cmd |-> cmd, bucket |-> "b1", key |-> key, outcome |-> "pending"]

Request(cmd, b, key) ==
  [cmd |-> cmd, bucket |-> b, key |-> key, outcome |-> "pending"]

\* the request an operation is suspended on
Pending == calls[Len(calls)]

\* record how the pending request ended
Settle(outcome) == [calls EXCEPT ![Len(calls)].outcome = outcome]

\* the answer to a request about an object: a rejection of the transport,
\* else what the provider holds
ObjectOutcome(transport) ==
  IF transport = "ok" THEN Lookup(Pending.bucket, Pending.key) ELSE transport

\* the value a failed request to the provider rejects with
RequestFailure(outcome) ==
  IF outcome = "missing" THEN Thrown("NotFound") ELSE RejectionOf(outcome)

RECURSIVE SeqsUpTo(_, _)
SeqsUpTo(S, n) ==
  IF n = 0 THEN {<<>>}
  ELSE LET shorter == SeqsUpTo(S, n - 1)
       IN shorter \cup {Append(q, x) : q \in {r \in shorter : Len(r) = n - 1},
                                      x \in S}

\* a list-objects response: Contents absent, or an array of entries, and
\* IsTruncated, set when the provider holds more entries than it returned
Entries == [Key : ListKeys, Size : Sizes]
NoContents == [isArray |-> FALSE, items |-> <<>>, isTruncated |-> FALSE]
ContentsSet ==
  {NoContents} \cup
  {[isArray |-> TRUE, items |-> q, isTruncated |-> t] :
     q \in SeqsUpTo(Entries, MaxEntries), t \in BOOLEAN}

\* the test list applies to response.Contents
NoFilesFound(c) == ~c.isArray \/ (c.isArray /\ Len(c.items) = 0)

\* an existsSync that takes a file left by a failed pipeline for no file
existsSync_onlyComplete(f) == f \in {"old", "full"}

\* an existsSync that never finds the file
existsSync_never(f) == FALSE

\* fs.existsSync(outFile)
existsSync(f) == f # "absent"

-----------------------------------------------------------------------------
(* Initial state: the client after construction *)

NoArgs == [key |-> <<>>, size |-> 0, isBuffer |-> FALSE]
None == <<>>

\* the bucket the constructor selects: it reads region, credentials and
\* cdnUrl only
constructorBucket(c) == Undefined

Init ==
  /\ config \in [cdnUrl : CdnUrls, defaultBucket : {Undefined, "b1"}]
  /\ bucket = constructorBucket(config)
  /\ url = ParseURL(config.cdnUrl)
  /\ store \in SUBSET (Buckets \X Keys)
  /\ outFile \in {"absent", "old"}
  /\ outDir \in BOOLEAN
  /\ outFile = "old" => outDir
  /\ op = "none"
  /\ args = NoArgs
  /\ pc = "idle"
  /\ calls = <<>>
  /\ guard = "pending"
  /\ contents = NoContents
  /\ err = NoError
  /\ ret = NoFile
  /\ atCall = [store |-> store, outFile |-> outFile, lastDeleted |-> None]
  /\ lastDeleted = None
  /\ setBucketCalled = FALSE
  /\ moved = FALSE

-----------------------------------------------------------------------------
(* setBucket *)

setBucket(b) ==
  /\ bucket' = b
  /\ setBucketCalled' = TRUE
  /\ moved' = (moved \/ (op # "none" /\ b # bucket))
  /\ UNCHANGED <<config, url, store, outFile, outDir, op, args, pc, calls,
                 guard, contents, err, ret, atCall, lastDeleted>>

-----------------------------------------------------------------------------
(* The parts shared by the data operations *)

\* a data operation is called: it runs up to the await in checkCredentials
Begin(name, a) ==
  /\ pc \in {"idle", "done"}
  /\ op' = name
  /\ args' = a
  /\ pc' = "ListBuckets"
  /\ calls' = <<Request("ListBuckets", Undefined, <<>>)>>
  /\ guard' = "pending"
  /\ contents' = NoContents
  /\ err' = NoError
  /\ ret' = NoFile
  /\ atCall' = [store |-> store, outFile |-> outFile,
                lastDeleted |-> lastDeleted]
  /\ moved' = FALSE
  /\ UNCHANGED <<config, bucket, url, store, outFile, outDir, lastDeleted,
                 setBucketCalled>>

\* a catch block that logs the failure and does not throw
Reject_swallowed(error) ==
  /\ pc' = "done"
  /\ err' = NoError
  /\ ret' = NoFile

\* the catch block: reject with one Error
Reject(error) ==
  /\ pc' = "done"
  /\ err' = ErrorMessage(error, DefaultMessage(op))
  /\ ret' = NoFile

\* how the list-buckets request can end
GuardOutcomes == Outcomes \cup {"status"}

\* what no step of a data operation changes
Frame ==
  UNCHANGED <<config, bucket, op, args, atCall, setBucketCalled, moved>>

\* await this.check() resumes with the list-buckets outcome o: the guard
\* throws into the catch block, or the operation goes on with rest
Guarded(o, rest) ==
  IF check(o, bucket) # NoThrow
    THEN /\ guard' = "failed"
         /\ calls' = Settle(o)
         /\ Reject(check(o, bucket))
         /\ UNCHANGED <<url, store, outFile, outDir, contents, lastDeleted>>
    ELSE /\ guard' = "passed"
         /\ rest

\* a second request that reuses the bucket of the head-object request
thisBucket_captured(b, head) == head.bucket

\* Bucket: this.bucket of the request built after checkIfFileExists resumed:
\* the field is read again, whatever bucket the head-object request named
thisBucket(b, head) == b

\* a Send that leaves the key or prefix out of the request
Send_unscoped(settled, cmd, b, key) ==
  /\ calls' = Append(settled, Request(cmd, b, <<>>))
  /\ pc' = cmd
  /\ UNCHANGED <<err, ret>>

\* send the next request and suspend on it
Send(settled, cmd, b, key) ==
  /\ calls' = Append(settled, Request(cmd, b, key))
  /\ pc' = cmd
  /\ UNCHANGED <<err, ret>>

\* resolve with a value
Resolve(value) ==
  /\ pc' = "done"
  /\ err' = NoError
  /\ ret' = value

-----------------------------------------------------------------------------
(* list *)

Prefixes == {<<>>, <<"d">>}

list(path) == Begin("list", [NoArgs EXCEPT !.key = path])

listGuard ==
  /\ op = "list" /\ pc = "ListBuckets"
  /\ \E o \in GuardOutcomes :
       Guarded(o, /\ Send(Settle(o), "ListObjectsV2", bucket, args.key)
                  /\ UNCHANGED <<url, store, outFile, outDir, contents,
                                 lastDeleted>>)
  /\ Frame

listResponse ==
  /\ op = "list" /\ pc = "ListObjectsV2"
  /\ \E o \in Outcomes :
       /\ calls' = Settle(o)
       /\ IF o # "ok"
            THEN Reject(RequestFailure(o)) /\ UNCHANGED <<url, contents>>
            ELSE \E c \in ContentsSet :
                   /\ contents' = c
                   /\ IF NoFilesFound(c)
                        THEN Reject(Thrown("No files found!")) /\ UNCHANGED url
                        ELSE /\ Resolve(ListFiles(c.items, url))
                             /\ url' = ListUrl(c.items, url)
  /\ UNCHANGED <<store, outFile, outDir, guard, lastDeleted>>
  /\ Frame

-----------------------------------------------------------------------------
(* upload *)

\* fs.statSync(file) on a path source can throw
StatOutcomes(a) == IF a.isBuffer THEN {"ok"} ELSE {"ok", "error"}

upload(destFile, size, isBuffer) ==
  Begin("upload", [key |-> destFile, size |-> size, isBuffer |-> isBuffer])

uploadGuard ==
  /\ op = "upload" /\ pc = "ListBuckets"
  /\ \E o \in GuardOutcomes :
       Guarded(o, /\ Send(Settle(o), "PutObject", bucket, args.key)
                  /\ UNCHANGED <<url, store, outFile, outDir, contents,
                                 lastDeleted>>)
  /\ Frame

\* the head-object request takes uploadParams.Bucket, the bucket of the put
uploadPut ==
  /\ op = "upload" /\ pc = "PutObject"
  /\ \E o \in Outcomes :
       IF o # "ok"
         THEN /\ calls' = Settle(o)
              /\ Reject(RequestFailure(o))
              /\ UNCHANGED <<store, lastDeleted>>
         ELSE /\ store' = store \cup {<<Pending.bucket, Pending.key>>}
              /\ lastDeleted' = None
              /\ Send(Settle(o), "HeadObject", Pending.bucket, Pending.key)
  /\ UNCHANGED <<url, outFile, outDir, guard, contents>>
  /\ Frame

uploadHead ==
  /\ op = "upload" /\ pc = "HeadObject"
  /\ \E t \in Outcomes, stat \in StatOutcomes(args) :
       LET o == ObjectOutcome(t)
           item == [Key |-> Pending.key, Size |-> args.size]
       IN /\ calls' = Settle(o)
          /\ IF o # "ok"
               THEN Reject(RequestFailure(o)) /\ UNCHANGED url
             ELSE IF stat # "ok"
               THEN Reject(Thrown("ENOENT")) /\ UNCHANGED url
             ELSE /\ Resolve(fileGenerator(item, url))
                  /\ url' = urlAfterFile(item, url)
  /\ UNCHANGED <<store, outFile, outDir, guard, contents, lastDeleted>>
  /\ Frame

-----------------------------------------------------------------------------
(* delete *)

delete(file) == Begin("delete", [NoArgs EXCEPT !.key = file])

deleteGuard ==
  /\ op = "delete" /\ pc = "ListBuckets"
  /\ \E o \in GuardOutcomes :
       Guarded(o, /\ Send(Settle(o), "HeadObject", bucket, args.key)
                  /\ UNCHANGED <<url, store, outFile, outDir, contents,
                                 lastDeleted>>)
  /\ Frame

\* checkIfFileExists resumes; the delete-object request reads this.bucket anew
deleteHead ==
  /\ op = "delete" /\ pc = "HeadObject"
  /\ \E t \in Outcomes :
       LET o == ObjectOutcome(t)
       IN IF ~checkIfFileExists(o)
            THEN calls' = Settle(o) /\ Reject(Thrown("File does not exist!"))
            ELSE Send(Settle(o), "DeleteObject", thisBucket(bucket, Pending),
                      args.key)
  /\ UNCHANGED <<url, store, outFile, outDir, guard, contents, lastDeleted>>
  /\ Frame

\* the provider answers a delete of a missing key like any other delete
deleteObject ==
  /\ op = "delete" /\ pc = "DeleteObject"
  /\ \E o \in Outcomes :
       /\ calls' = Settle(o)
       /\ IF o # "ok"
            THEN Reject(RequestFailure(o)) /\ UNCHANGED <<store, lastDeleted>>
            ELSE /\ store' = store \ {<<Pending.bucket, Pending.key>>}
                 /\ lastDeleted' = <<Pending.bucket, Pending.key>>
                 /\ Resolve(NoFile)
  /\ UNCHANGED <<url, outFile, outDir, guard, contents>>
  /\ Frame

-----------------------------------------------------------------------------
(* download *)

\* fs.mkdirSync can throw; it is reached only when the directory is missing
MkdirOutcomes == IF outDir THEN {"ok"} ELSE {"ok", "error"}

\* whether the get-object response carries a Body
Bodies == {"stream", "empty"}

\* fs.createWriteStream(outFile): the file is created, or truncated
createWriteStream(f) == "partial"

\* a download that opens the local file before it looks at the Body
openOutFile_beforeBodyTest(body, f) == createWriteStream(f)

\* the local file once the get-object response arrived: the Body is tested
\* first, and the file is opened only when there is one
openOutFile(body, f) == IF body = "empty" THEN f ELSE createWriteStream(f)

download(file) == Begin("download", [NoArgs EXCEPT !.key = file])

downloadGuard ==
  /\ op = "download" /\ pc = "ListBuckets"
  /\ \E o \in GuardOutcomes, mk \in MkdirOutcomes :
       Guarded(o,
         IF existsSync(outFile)
           THEN /\ calls' = Settle(o)
                /\ Reject(Thrown("File already exists!"))
                /\ UNCHANGED outDir
         ELSE IF mk # "ok"
           THEN /\ calls' = Settle(o)
                /\ Reject(Thrown("EACCES"))
                /\ UNCHANGED outDir
         ELSE /\ outDir' = TRUE
              /\ Send(Settle(o), "HeadObject", bucket, args.key))
  /\ UNCHANGED <<url, store, outFile, contents, lastDeleted>>
  /\ Frame

\* checkIfFileExists resumes; the get-object request reads this.bucket anew
downloadHead ==
  /\ op = "download" /\ pc = "HeadObject"
  /\ \E t \in Outcomes :
       LET o == ObjectOutcome(t)
       IN IF ~checkIfFileExists(o)
            THEN calls' = Settle(o) /\ Reject(Thrown("File does not exist!"))
            ELSE Send(Settle(o), "GetObject", thisBucket(bucket, Pending),
                      args.key)
  /\ UNCHANGED <<url, store, outFile, outDir, guard, contents, lastDeleted>>
  /\ Frame

\* the response arrives; with a Body, createWriteStream creates the local
\* file and the operation suspends on the pipeline
downloadGet ==
  /\ op = "download" /\ pc = "GetObject"
  /\ \E t \in Outcomes, body \in Bodies :
       LET o == ObjectOutcome(t)
       IN /\ calls' = Settle(o)
          /\ IF o # "ok"
               THEN Reject(RequestFailure(o)) /\ UNCHANGED outFile
             ELSE /\ outFile' = openOutFile(body, outFile)
                  /\ IF body = "empty"
                       THEN Reject(Thrown("Response body is empty!"))
                       ELSE pc' = "pipeline" /\ UNCHANGED <<err, ret>>
  /\ UNCHANGED <<url, store, outDir, guard, contents, lastDeleted>>
  /\ Frame

\* the pipeline settles: the file is complete, or the partial file stays
downloadPipeline ==
  /\ op = "download" /\ pc = "pipeline"
  /\ \E o \in Outcomes :
       IF o # "ok"
         THEN Reject(RejectionOf(o)) /\ UNCHANGED outFile
         ELSE outFile' = "full" /\ Resolve(NoFile)
  /\ UNCHANGED <<url, store, outDir, calls, guard, contents, lastDeleted>>
  /\ Frame

-----------------------------------------------------------------------------
(* Specification *)

Next ==
  \/ \E b \in Buckets : setBucket(b)
  \/ \E path \in Prefixes : list(path)
  \/ listGuard
  \/ listResponse
  \/ \E destFile \in Keys, size \in Sizes, isBuffer \in BOOLEAN :
       upload(destFile, size, isBuffer)
  \/ uploadGuard
  \/ uploadPut
  \/ uploadHead
  \/ \E file \in Keys : delete(file)
  \/ deleteGuard
  \/ deleteHead
  \/ deleteObject
  \/ \E file \in Keys : download(file)
  \/ downloadGuard
  \/ downloadHead
  \/ downloadGet
  \/ downloadPipeline

Spec == Init /\ [][Next]_vars

TypeOK ==
  /\ bucket \in Buckets \cup {Undefined}
  /\ pc \in {"idle", "done", "ListBuckets", "ListObjectsV2", "PutObject",
             "HeadObject", "DeleteObject", "GetObject", "pipeline"}
  /\ outFile \in {"absent", "old", "partial", "full"}
  /\ guard \in {"pending", "passed", "failed"}

-----------------------------------------------------------------------------
(* Properties *)

Done == pc = "done"

\* the commands of the requests the operation has sent
Cmds == {calls[i].cmd : i \in 1 .. Len(calls)}

DataCmds ==
  {"ListObjectsV2", "PutObject", "HeadObject", "GetObject", "DeleteObject"}

\* the credential check of the operation succeeded
CredentialsOk == Len(calls) >= 1 /\ calls[1].outcome = "ok"

\* the File records the finished operation returned
ProducedFiles ==
  IF Done /\ err = NoError /\ op = "list"
    THEN {ret[i] : i \in 1 .. Len(ret)}
  ELSE IF Done /\ err = NoError /\ op = "upload" /\ ret # NoFile
    THEN {ret}
  ELSE {}

BaseUrl == ParseURL(config.cdnUrl)

C2_DefaultBucketSelected ==
  (config.defaultBucket # Undefined /\ ~setBucketCalled /\ Done
     /\ CredentialsOk) =>
     /\ bucket = config.defaultBucket
     /\ guard = "passed"
     /\ \A i \in 2 .. Len(calls) : calls[i].bucket = config.defaultBucket

\* the list-objects response of the finished list arrived
Listed == op = "list" /\ Done /\ Len(calls) = 2 /\ calls[2].outcome = "ok"

\* C3: a list whose response has no Contents, an empty Contents, or only
\* entries of size 0 fails with "No files found!".
C3_NothingListedFails ==
  (Listed /\ \A i \in 1 .. Len(contents.items) : contents.items[i].Size = 0)
     => err = "No files found!"

IsPositive(entry) == entry.Size > 0

\* C4: a list whose response holds a positive-size entry returns one File
\* per positive-size entry, none for a zero-byte entry, in the order of the
\* response.
C4_ListKeepsPositiveEntriesInOrder ==
  (Listed /\ \E i \in 1 .. Len(contents.items) : IsPositive(contents.items[i]))
     => /\ err = NoError
        /\ LET kept == SelectSeq(contents.items, IsPositive)
           IN /\ Len(ret) = Len(kept)
              /\ \A i \in 1 .. Len(kept) :
                   /\ ret[i].key = kept[i].Key
                   /\ ret[i].byte = kept[i].Size
                   /\ ret[i].byte > 0

C4_Witness ==
  /\ Listed
  /\ Len(contents.items) = 2
  /\ ~IsPositive(contents.items[1])
  /\ IsPositive(contents.items[2])
  /\ contents.items[1].Key # contents.items[2].Key
  /\ Len(ret) = 1
  /\ ret[1].key = contents.items[2].Key

\* C5 as claimed: the url of every File is the origin of the base URL
\* followed by the path written from the key, and nothing else.
C5_UrlHasNoQueryNoFragment ==
  \A f \in ProducedFiles : f.url = <<BaseUrl.origin>> \o PathnameSetter(f.key)

\* C5 amended: the url of every File is the base URL with its path replaced
\* by the path written from the key; the query string and the fragment of
\* the base URL stay in the url.
C5_UrlIsBaseWithKeyAsPath ==
  \A f \in ProducedFiles :
     f.url = <<BaseUrl.origin>> \o PathnameSetter(f.key)
               \o BaseUrl.search \o BaseUrl.hash

C5_Witness ==
  /\ op = "list" /\ Done /\ err = NoError
  /\ Len(ret) = 2
  /\ ret[1].key # ret[2].key
  /\ BaseUrl.search # <<>>
  /\ BaseUrl.hash # <<>>

\* C6: an upload of a buffer of N bytes to key K that resolves returns a
\* File whose byte is N, whose key is K and whose url path is written from K.
C6_UploadRoundTrip ==
  (op = "upload" /\ Done /\ args.isBuffer /\ err = NoError) =>
     /\ ret # NoFile
     /\ ret.byte = args.size
     /\ ret.key = args.key
     /\ ret.url = toString([BaseUrl EXCEPT !.pathname = PathnameSetter(args.key)])

\* the finished delete passed the guard and sent its head-object request
DeleteChecked == op = "delete" /\ Done /\ Len(calls) >= 2

HeadTarget == <<calls[2].bucket, args.key>>

\* C7: a delete that passes the guard and whose key is absent from the
\* bucket fails with "File does not exist!" and sends no delete-object
\* request; so does a delete of the key a delete has just removed.
C7_DeleteOfMissingKeyFails ==
  (DeleteChecked /\ (HeadTarget \notin atCall.store
                       \/ HeadTarget = atCall.lastDeleted)) =>
     /\ err = "File does not exist!"
     /\ "DeleteObject" \notin Cmds

C7_Witness ==
  /\ DeleteChecked
  /\ HeadTarget = atCall.lastDeleted
  /\ calls[2].outcome = "missing"
  /\ err = "File does not exist!"

\* C8: a delete reports "File does not exist!" only when the key is absent;
\* a failed head-object or delete-object request is reported otherwise.
C8_NotFoundOnlyWhenAbsent ==
  (DeleteChecked /\ err = "File does not exist!") =>
     HeadTarget \notin atCall.store

\* C9: a download that passes the guard while a file exists at outFile fails
\* with "File already exists!" and leaves that file as it was, whether or
\* not the bucket holds the key.
C9_DownloadConflict ==
  (op = "download" /\ guard = "passed" /\ atCall.outFile # "absent") =>
     /\ Done
     /\ err = "File already exists!"
     /\ outFile = atCall.outFile

C9_Witness ==
  /\ op = "download" /\ Done
  /\ atCall.outFile = "old"
  /\ <<bucket, args.key>> \in store
  /\ err = "File already exists!"

\* C10 as claimed: a download called while a file exists at outFile sends
\* no request at all.
C10_ConflictBeforeAnyRequest ==
  (op = "download" /\ atCall.outFile # "absent") => Len(calls) = 0

\* C10 amended: a download called while a file exists at outFile sends the
\* list-buckets request of the guard and no other request.
C10_ConflictAfterGuardOnly ==
  (op = "download" /\ atCall.outFile # "absent") =>
     /\ Cmds = {"ListBuckets"}
     /\ Len(calls) = 1

C10_Witness ==
  /\ op = "download" /\ Done
  /\ atCall.outFile = "old"
  /\ guard = "passed"
  /\ calls[1].outcome = "ok"
  /\ <<bucket, args.key>> \notin store
  /\ err = "File already exists!"

\* C11: a data operation whose credential check does not succeed, whether
\* by a status other than 200 or by a failed request, fails with
\* "Authentication failed!" after that single request, bucket selected or not.
C11_GuardFailsWithAuthenticationError ==
  (op # "none" /\ Done /\ ~CredentialsOk) =>
     /\ err = "Authentication failed!"
     /\ Len(calls) = 1

\* the requests of the finished operation that were rejected
RejectedCalls == {i \in 1 .. Len(calls) : calls[i].outcome \in Rejections}

\* C12: a data operation in which a request was rejected rejects with the
\* message of the rejection when that is an Error and with its default
\* message otherwise.
C12_FailuresKeepTheirMessage ==
  (op # "none" /\ Done) =>
     \A i \in RejectedCalls :
        err = ErrorMessage(RejectionOf(calls[i].outcome), DefaultMessage(op))

\* what C12 says of the requests other than the head-object request of
\* checkIfFileExists
C12_OutsideCheckIfFileExists ==
  (op # "none" /\ Done) =>
     \A i \in RejectedCalls :
        (op = "upload" \/ calls[i].cmd # "HeadObject") =>
           err = ErrorMessage(RejectionOf(calls[i].outcome), DefaultMessage(op))

\* a step that assigns this.bucket changes nothing else of the client, the
\* provider or the local files, and sends no request
OnlyBucketAssigned ==
  bucket' # bucket =>
    UNCHANGED <<config, url, store, outFile, outDir, op, args, pc, calls,
                guard, contents, err, ret, atCall, lastDeleted>>

\* the requests of an operation during which this.bucket kept its value all
\* name that bucket
RequestsNameSelectedBucket ==
  (op # "none" /\ ~moved) =>
     \A i \in 2 .. Len(calls) : calls[i].bucket = bucket

\* C13: setBucket changes the selected bucket and nothing else and sends no
\* request; no step of a data operation changes the selection, and every
\* request of an operation that runs between two setBucket calls names the
\* bucket selected by the first.
C13_SetBucketOnlySelects ==
  [][OnlyBucketAssigned]_vars /\ []RequestsNameSelectedBucket

C13_Witness ==
  /\ op = "delete" /\ Done /\ err = NoError
  /\ ~moved
  /\ bucket = "b2"
  /\ Len(calls) = 3
  /\ calls[2].bucket = "b2"
  /\ calls[3].bucket = "b2"

\* a delete or download sends its second object request
SendsSecondRequest ==
  /\ op \in {"delete", "download"}
  /\ Len(calls) = 2
  /\ Len(calls') = 3

\* the head-object request and the request after it name different buckets
SplitBuckets ==
  /\ op \in {"delete", "download"}
  /\ Len(calls) = 3
  /\ calls[2].bucket # calls[3].bucket

\* C14: the delete-object or get-object request of an operation names the
\* bucket selected when it is sent, not the bucket of the head-object
\* request before it; the two differ only when setBucket ran in between,
\* and then they do.
C14_SecondRequestReadsBucketAnew ==
  /\ [][SendsSecondRequest => calls'[3].bucket = bucket]_vars
  /\ [](SplitBuckets => moved)

C14_Witness ==
  /\ op = "delete" /\ Done /\ err = NoError
  /\ calls[2].cmd = "HeadObject" /\ calls[2].bucket = "b1"
  /\ calls[2].outcome = "ok"
  /\ Len(calls) = 3
  /\ calls[3].cmd = "DeleteObject" /\ calls[3].bucket = "b2"
  /\ atCall.store = {<<"b1", args.key>>}
  /\ store = atCall.store

\* the commands of the requests sent so far, in order
CmdSeq == [i \in 1 .. Len(calls) |-> calls[i].cmd]

UploadOrder == <<"ListBuckets", "PutObject", "HeadObject">>

\* the messages an upload rejects with when put-object or head-object fails
UploadFailures == {"NetworkError", "NotFound", "Failed to upload file!"}

\* C15: an upload sends list-buckets, put-object, head-object in that order;
\* head-object is sent only after put-object succeeded; the upload resolves
\* only when both succeeded and rejects when either failed.
C15_UploadAllOrNothing ==
  op = "upload" =>
     /\ Len(calls) <= 3
     /\ CmdSeq = SubSeq(UploadOrder, 1, Len(calls))
     /\ Len(calls) = 3 => calls[2].outcome = "ok"
     /\ (Done /\ err = NoError) =>
           /\ Len(calls) = 3
           /\ calls[2].outcome = "ok"
           /\ calls[3].outcome = "ok"
     /\ (Done /\ Len(calls) >= 2 /\ calls[Len(calls)].outcome # "ok") =>
           /\ err \in UploadFailures
           /\ ret = NoFile

C15_Witness ==
  /\ op = "upload" /\ Done
  /\ Len(calls) = 3
  /\ calls[2].outcome = "ok"
  /\ calls[3].outcome = "reject"
  /\ <<calls[2].bucket, args.key>> \in store
  /\ <<calls[2].bucket, args.key>> \notin atCall.store
  /\ err = "Failed to upload file!"

\* the finished download failed in the pipeline: its get-object request
\* succeeded with a Body, and it rejected
StreamFailed ==
  /\ op = "download" /\ Done /\ err # NoError
  /\ Len(calls) = 3 /\ calls[3].outcome = "ok"
  /\ err # "Response body is empty!"

\* C16: a download that fails in the pipeline leaves the partial file at
\* outFile, and a later download that passes the guard while that file is
\* there fails with "File already exists!" and leaves it as it is.
C16_PartialFileBlocksRetry ==
  /\ StreamFailed => outFile = "partial"
  /\ (op = "download" /\ guard = "passed" /\ atCall.outFile = "partial") =>
        /\ Done
        /\ err = "File already exists!"
        /\ Cmds = {"ListBuckets"}
        /\ outFile = "partial"

C16_Witness ==
  /\ op = "download" /\ Done
  /\ guard = "passed"
  /\ atCall.outFile = "partial"
  /\ <<bucket, args.key>> \in store
  /\ err = "File already exists!"

\* C17: a list sends one list-objects request, for the selected bucket and
\* the prefix it was given, and none after the response, truncated or not;
\* the files it returns are those of the positive-size entries of that
\* response.
C17_ListReadsOnePage ==
  op = "list" =>
     /\ Len(calls) <= 2
     /\ Len(calls) = 2 =>
           /\ calls[2].cmd = "ListObjectsV2"
           /\ calls[2].key = args.key
           /\ ~moved => calls[2].bucket = bucket
     /\ (Len(calls) = 2 /\ calls[2].outcome # "pending") => Done
     /\ (Listed /\ err = NoError) =>
           /\ Len(ret) <= Len(contents.items)
           /\ \A i \in 1 .. Len(ret) :
                \E j \in i .. Len(contents.items) :
                   /\ ret[i].key = contents.items[j].Key
                   /\ ret[i].byte = contents.items[j].Size

C17_Witness ==
  /\ Listed /\ err = NoError
  /\ contents.isTruncated
  /\ args.key = <<"d">>
  /\ calls[2].key = <<"d">>
  /\ Len(contents.items) = MaxEntries
  /\ Len(ret) = MaxEntries

\* the finished download failed before its pipeline started
FailedBeforeStream ==
  /\ op = "download" /\ Done /\ err # NoError
  /\ ~StreamFailed

\* the directory is made in the step of a download that resumes from the
\* guard, finds no file at outFile and goes on to send head-object
DirectoryMadeAfterLocalCheck ==
  outDir' # outDir =>
    /\ op = "download" /\ pc = "ListBuckets"
    /\ guard' = "passed"
    /\ outFile = "absent"
    /\ pc' = "HeadObject"
    /\ Len(calls) = 1

\* the local file changes only when a download receives the get-object
\* response or its pipeline settles
FileWrittenFromGetOn ==
  outFile' # outFile => (op = "download" /\ pc \in {"GetObject", "pipeline"})

\* C18: a download that fails before the pipeline leaves outFile as it was
\* when the download was called; the one local effect it can have is making
\* the destination directory, after the guard and the already-exists test
\* and before the head-object request.
C18_EarlyFailureWritesNoFile ==
  /\ [](FailedBeforeStream => outFile = atCall.outFile)
  /\ [][DirectoryMadeAfterLocalCheck]_vars
  /\ [][FileWrittenFromGetOn]_vars

C18_Witness ==
  /\ FailedBeforeStream
  /\ err = "Response body is empty!"
  /\ Len(calls) = 3
  /\ outFile = "absent"
  /\ outDir

====
